---- MODULE Spec2Model ----
(***************************************************************************)
(* Model of the three SLICeR operator scripts:                             *)
(*   fetch_cybergym_data.py   (dataset fetcher)                            *)
(*   extract_from_cybergym.py (source extractor)                           *)
(*   install_codeql.py        (tool installer)                             *)
(* Strings are sequences of one-character strings, so that splitting and   *)
(* concatenation are computed and not assumed.  External commands (git,    *)
(* docker, wget, unzip, codeql) are nondeterministic in their exit status  *)
(* and in what they leave on disk.                                         *)
(***************************************************************************)
EXTENDS Naturals, Integers, Sequences, FiniteSets, TLC

VARIABLES
    \* ---- task resolution, both scripts side by side
    pTask, pFetch, pExtract,
    \* ---- dataset fetcher
    fPc, fArgs, fParsed, fIdx, fCoTried, fLfsTried, fFailed, fAbort, fCmds,
    fRuns, repoExists, sparse,
    \* ---- source extractor
    ePc, eTask, eNs, eTid, eRepo, eGot, eCpLeft, eCreated, eReported, eAbort,
    eCmds, eRuns, containers, dirs, buildSh,
    \* ---- tool installer
    iPc, iBinFound, iDownloaded, iExtracted, iAppended, iAbort, iRuns,
    envSet, binExists, queriesExists, manifests, bashrcExists, profile

pvars == <<pTask, pFetch, pExtract>>
fvars == <<fPc, fArgs, fParsed, fIdx, fCoTried, fLfsTried, fFailed, fAbort,
           fCmds, fRuns, repoExists, sparse>>
evars == <<ePc, eTask, eNs, eTid, eRepo, eGot, eCpLeft, eCreated, eReported,
           eAbort, eCmds, eRuns, containers, dirs, buildSh>>
ivars == <<iPc, iBinFound, iDownloaded, iExtracted, iAppended, iAbort, iRuns,
           envSet, binExists, queriesExists, manifests, bashrcExists, profile>>
vars == <<pvars, fvars, evars, ivars>>

----------------------------------------------------------------------------
(* Bounds *)

MaxTail == 3
MaxTasks == 2
MaxRuns == 2
MaxProfileLen == 2

----------------------------------------------------------------------------
(* Strings *)

arvo == <<"a", "r", "v", "o">>
oss_fuzz == <<"o", "s", "s", "-", "f", "u", "z", "z">>
Namespaces == {arvo, oss_fuzz}

SeqsUpTo(S, n) == UNION {[1..k -> S] : k \in 0..n}

HasColon(t) == \E i \in 1..Len(t) : t[i] = ":"

\* index of the first colon of a string that has one
FirstColon(t) ==
    CHOOSE i \in 1..Len(t) : t[i] = ":" /\ \A j \in 1..(i - 1) : t[j] # ":"

LastColon(t) ==
    CHOOSE i \in 1..Len(t) : t[i] = ":" /\ \A j \in (i + 1)..Len(t) : t[j] # ":"

\* t.split(":", 1) of a string that has a colon
split_first(t) ==
    <<SubSeq(t, 1, FirstColon(t) - 1), SubSeq(t, FirstColon(t) + 1, Len(t))>>

Rejected(why) == [ok |-> FALSE, ns |-> <<>>, tid |-> <<>>, err |-> why]
Accepted(ns, tid) == [ok |-> TRUE, ns |-> ns, tid |-> tid, err |-> "none"]

\* a parse_task that splits on the last colon instead of the first
parse_task_rsplit(t) ==
    IF ~HasColon(t) THEN Rejected("bad_format")
    ELSE LET ns == SubSeq(t, 1, LastColon(t) - 1)
             tid == SubSeq(t, LastColon(t) + 1, Len(t))
         IN  IF ns \notin Namespaces THEN Rejected("unsupported_ns")
             ELSE Accepted(ns, tid)

\* fetcher: parse_task
parse_task(t) ==
    IF ~HasColon(t) THEN Rejected("bad_format")
    ELSE LET p == split_first(t)
         IN  IF p[1] \notin {arvo, oss_fuzz} THEN Rejected("unsupported_ns")
             ELSE Accepted(p[1], p[2])

\* extractor: repo_for, "ERR" standing for the SystemExit
repo_for(ns) ==
    IF ns = arvo THEN "n132/arvo"
    ELSE IF ns = oss_fuzz THEN "cybergym/oss-fuzz-task"
    ELSE "ERR"

\* extractor: the colon test and split of main followed by repo_for
extract_resolve(t) ==
    IF ~HasColon(t) THEN Rejected("bad_format")
    ELSE LET ns == split_first(t)[1]
             tid == split_first(t)[2]
         IN  IF repo_for(ns) = "ERR" THEN Rejected("unsupported_ns")
             ELSE Accepted(ns, tid)

\* inputs of the task-resolution check
Prefixes == {<<>>, arvo, oss_fuzz, <<"a", "r", "v">>, <<"o", "s", "s">>,
             arvo \o <<"x">>}
TailChars == {":", "1", "o"}
TaskStrings == {p \o s : p \in Prefixes, s \in SeqsUpTo(TailChars, MaxTail)}

----------------------------------------------------------------------------
(* Task resolution, both scripts applied to the same string *)

ParseInit ==
    /\ pTask = <<>>
    /\ pFetch = Rejected("bad_format")
    /\ pExtract = Rejected("bad_format")

ResolveTask ==
    /\ \E t \in TaskStrings :
        /\ pTask' = t
        /\ pFetch' = parse_task(t)
        /\ pExtract' = extract_resolve(t)
    /\ UNCHANGED <<fvars, evars, ivars>>

----------------------------------------------------------------------------
(* Dataset fetcher *)

data == <<"d", "a", "t", "a">>

task_path(ns, tid) == data \o <<"/">> \o ns \o <<"/">> \o tid

\* a run that raises on every non-zero exit, whatever check says
fetch_run_strict(check, rc) == IF rc # 0 THEN "raise" ELSE "return"

\* run(cmd, check): subprocess.run raises CalledProcessError when check is
\* set and the command exits non-zero
fetch_run(check, rc) == IF check /\ rc # 0 THEN "raise" ELSE "return"

ExitCodes == {0, 1}

\* extend_sparse_paths: the prefix set after the call.  listRc and setRc are
\* the exit codes of "sparse-checkout list" and "sparse-checkout set".
\* The list is sorted before it is handed to git, which stores a set.
extend_sparse_paths(cfg, paths, listRc, setRc) ==
    LET cur == IF listRc = 0 THEN cfg ELSE {}
        wanted == cur \cup paths
    IN  IF setRc = 0 THEN wanted ELSE cfg

FetchTaskStrings ==
    { arvo \o <<":", "1">>, oss_fuzz \o <<":", "1">>, arvo \o <<":", "2">>,
      arvo, <<"x", ":", "1">> }

FetchArgLists == SeqsUpTo(FetchTaskStrings, MaxTasks) \ {<<>>}

ParsedPaths(parsed) == {task_path(parsed[i][1], parsed[i][2]) : i \in 1..Len(parsed)}

FetchInit ==
    /\ fPc = "idle"
    /\ fArgs = <<>>
    /\ fParsed = <<>>
    /\ fIdx = 1
    /\ fCoTried = {}
    /\ fLfsTried = {}
    /\ fFailed = {}
    /\ fAbort = "none"
    /\ fCmds = {}
    /\ fRuns = 0
    /\ repoExists = FALSE
    /\ sparse = {}

FetchOther == UNCHANGED <<pvars, evars, ivars>>

FetchAbort(why) == fPc' = "aborted" /\ fAbort' = why

\* main: argparse has read the task strings (nargs="+")
FetchMain ==
    /\ fPc \in {"idle", "done", "aborted"}
    /\ fRuns < MaxRuns
    /\ \E a \in FetchArgLists : fArgs' = a
    /\ fPc' = "ensure_repo"
    /\ fParsed' = <<>>
    /\ fIdx' = 1
    /\ fCoTried' = {}
    /\ fLfsTried' = {}
    /\ fFailed' = {}
    /\ fAbort' = "none"
    /\ fCmds' = {}
    /\ fRuns' = fRuns + 1
    /\ UNCHANGED <<repoExists, sparse>>
    /\ FetchOther

\* ensure_repo, git missing or the parent directory not creatable
EnsureRepoFatal ==
    /\ fPc = "ensure_repo"
    /\ \E why \in {"git_missing", "mkdir"} : FetchAbort(why)
    /\ UNCHANGED <<fArgs, fParsed, fIdx, fCoTried, fLfsTried, fFailed, fCmds,
                   fRuns, repoExists, sparse>>
    /\ FetchOther

\* ensure_repo, repo_dir missing: clone (check=True), then the best-effort
\* set-up commands, the last of which is "sparse-checkout set data"
EnsureRepoClone ==
    /\ fPc = "ensure_repo"
    /\ ~repoExists
    /\ \E cloneRc \in ExitCodes, otherRc \in ExitCodes, setRc \in ExitCodes :
        IF fetch_run(TRUE, cloneRc) = "raise"
        THEN /\ FetchAbort("clone")
             /\ fCmds' = fCmds \cup {"clone"}
             /\ UNCHANGED <<repoExists, sparse, fFailed>>
        ELSE IF fetch_run(FALSE, otherRc) = "raise"
        THEN /\ FetchAbort("ensure_repo_cmd")
             /\ fCmds' = fCmds \cup {"clone"}
             /\ repoExists' = TRUE
             /\ UNCHANGED <<sparse, fFailed>>
        ELSE IF fetch_run(FALSE, setRc) = "raise"
        THEN /\ FetchAbort("ensure_repo_cmd")
             /\ fCmds' = fCmds \cup {"clone", "sparse_set"}
             /\ repoExists' = TRUE
             /\ UNCHANGED <<sparse, fFailed>>
        ELSE /\ fPc' = "parse"
             /\ fCmds' = fCmds \cup {"clone", "sparse_set"}
             /\ repoExists' = TRUE
             /\ sparse' = (IF setRc = 0 THEN {data} ELSE sparse)
             /\ fFailed' = fFailed
                   \cup (IF otherRc # 0 THEN {<<"ensure_repo_cmd", 0>>} ELSE {})
                   \cup (IF setRc # 0 THEN {<<"ensure_repo_cmd", 0>>} ELSE {})
             /\ UNCHANGED fAbort
    /\ UNCHANGED <<fArgs, fParsed, fIdx, fCoTried, fLfsTried, fRuns>>
    /\ FetchOther

\* ensure_repo, repo_dir present: set-url, fetch --all, pull --ff-only, lfs
\* install, config, sparse-checkout init, all best effort
EnsureRepoUpdate ==
    /\ fPc = "ensure_repo"
    /\ repoExists
    /\ \E rc \in ExitCodes :
        IF fetch_run(FALSE, rc) = "raise"
        THEN /\ FetchAbort("ensure_repo_cmd")
             /\ UNCHANGED fFailed
        ELSE /\ fPc' = "parse"
             /\ fFailed' = fFailed
                   \cup (IF rc # 0 THEN {<<"ensure_repo_cmd", 0>>} ELSE {})
             /\ UNCHANGED fAbort
    /\ fCmds' = fCmds \cup {"fetch", "pull"}
    /\ UNCHANGED <<fArgs, fParsed, fIdx, fCoTried, fLfsTried, fRuns,
                   repoExists, sparse>>
    /\ FetchOther

\* main: parsed = [parse_task(t) for t in args.tasks]
ParseTasks ==
    /\ fPc = "parse"
    /\ IF \E i \in 1..Len(fArgs) : ~parse_task(fArgs[i]).ok
       THEN /\ FetchAbort("bad_task")
            /\ UNCHANGED fParsed
       ELSE /\ fPc' = "mkdirs"
            /\ fParsed' = [i \in 1..Len(fArgs) |->
                              <<parse_task(fArgs[i]).ns, parse_task(fArgs[i]).tid>>]
            /\ UNCHANGED fAbort
    /\ UNCHANGED <<fArgs, fIdx, fCoTried, fLfsTried, fFailed, fCmds, fRuns,
                   repoExists, sparse>>
    /\ FetchOther

\* materialize_tasks: (repo_dir / "data" / ns).mkdir for every task
MkTaskDirs ==
    /\ fPc = "mkdirs"
    /\ \E ok \in BOOLEAN :
        IF ok THEN fPc' = "extend" /\ UNCHANGED fAbort
        ELSE FetchAbort("mkdir")
    /\ UNCHANGED <<fArgs, fParsed, fIdx, fCoTried, fLfsTried, fFailed, fCmds,
                   fRuns, repoExists, sparse>>
    /\ FetchOther

\* materialize_tasks step 1: extend_sparse_paths
ExtendSparsePaths ==
    /\ fPc = "extend"
    /\ \E listRc \in ExitCodes, setRc \in ExitCodes :
        \* the list call's CalledProcessError is caught inside the function
        IF fetch_run(FALSE, setRc) = "raise"
        THEN /\ FetchAbort("sparse_set")
             /\ fCmds' = fCmds \cup {"sparse_set"}
             /\ UNCHANGED <<sparse, fFailed>>
        ELSE /\ fPc' = "lfs_fetch"
             /\ sparse' = extend_sparse_paths(sparse, ParsedPaths(fParsed), listRc, setRc)
             /\ fCmds' = fCmds \cup {"sparse_set"}
             /\ fFailed' = fFailed
                   \cup (IF listRc # 0 THEN {<<"sparse_list", 0>>} ELSE {})
                   \cup (IF setRc # 0 THEN {<<"sparse_set", 0>>} ELSE {})
             /\ UNCHANGED fAbort
    /\ UNCHANGED <<fArgs, fParsed, fIdx, fCoTried, fLfsTried, fRuns, repoExists>>
    /\ FetchOther

\* materialize_tasks step 2: git lfs fetch --include ... (check=False)
LfsFetch ==
    /\ fPc = "lfs_fetch"
    /\ \E rc \in ExitCodes :
        IF fetch_run(FALSE, rc) = "raise"
        THEN FetchAbort("lfs_fetch") /\ UNCHANGED <<fFailed, fIdx>>
        ELSE /\ fPc' = "checkout"
             /\ fIdx' = 1
             /\ fFailed' = fFailed \cup (IF rc # 0 THEN {<<"lfs_fetch", 0>>} ELSE {})
             /\ UNCHANGED fAbort
    /\ UNCHANGED <<fArgs, fParsed, fCoTried, fLfsTried, fCmds, fRuns,
                   repoExists, sparse>>
    /\ FetchOther

\* materialize_tasks step 3: one iteration of the checkout loop
Checkout ==
    /\ fPc = "checkout"
    /\ fIdx <= Len(fParsed)
    /\ \E rc \in ExitCodes :
        IF fetch_run(FALSE, rc) = "raise"
        THEN FetchAbort("checkout") /\ UNCHANGED <<fFailed, fIdx>>
        ELSE /\ fIdx' = (IF fIdx = Len(fParsed) THEN 1 ELSE fIdx + 1)
             /\ fPc' = (IF fIdx = Len(fParsed) THEN "lfs_checkout" ELSE "checkout")
             /\ fFailed' = fFailed \cup (IF rc # 0 THEN {<<"checkout", fIdx>>} ELSE {})
             /\ UNCHANGED fAbort
    /\ fCoTried' = fCoTried \cup {fIdx}
    /\ UNCHANGED <<fArgs, fParsed, fLfsTried, fCmds, fRuns, repoExists, sparse>>
    /\ FetchOther

\* materialize_tasks step 4: one iteration of the lfs checkout loop
LfsCheckout ==
    /\ fPc = "lfs_checkout"
    /\ fIdx <= Len(fParsed)
    /\ \E rc \in ExitCodes :
        IF fetch_run(FALSE, rc) = "raise"
        THEN FetchAbort("lfs_checkout") /\ UNCHANGED <<fFailed, fIdx>>
        ELSE /\ fIdx' = (IF fIdx = Len(fParsed) THEN 1 ELSE fIdx + 1)
             /\ fPc' = (IF fIdx = Len(fParsed) THEN "done" ELSE "lfs_checkout")
             /\ fFailed' = fFailed \cup (IF rc # 0 THEN {<<"lfs_checkout", fIdx>>} ELSE {})
             /\ UNCHANGED fAbort
    /\ fLfsTried' = fLfsTried \cup {fIdx}
    /\ UNCHANGED <<fArgs, fParsed, fCoTried, fCmds, fRuns, repoExists, sparse>>
    /\ FetchOther

FetchNext ==
    \/ FetchMain
    \/ EnsureRepoFatal
    \/ EnsureRepoClone
    \/ EnsureRepoUpdate
    \/ ParseTasks
    \/ MkTaskDirs
    \/ ExtendSparsePaths
    \/ LfsFetch
    \/ Checkout
    \/ LfsCheckout

----------------------------------------------------------------------------
(* Source extractor *)

Variants == {"vul", "fix"}

Suffix(v) == IF v = "vul" THEN <<"v", "u", "l">> ELSE <<"f", "i", "x">>

\* args.project
project == <<"p">>

\* main: f"{ns}_{tid}_vul", f"{ns}_{tid}_fix"
container_name(ns, tid, v) == ns \o <<"_">> \o tid \o <<"_">> \o Suffix(v)

\* main: base_dir / f"{args.project}_{tid}_vul", relative to out_root
out_path(tid, v) ==
    tid \o <<"/">> \o project \o <<"_">> \o tid \o <<"_">> \o Suffix(v)

ExtractTaskStrings ==
    { arvo \o <<":", "1">>, oss_fuzz \o <<":", "1">>, arvo, <<"x", ":", "1">> }

ExtractTids ==
    {extract_resolve(t).tid : t \in {u \in ExtractTaskStrings : extract_resolve(u).ok}}

OutPaths == {out_path(tid, v) : tid \in ExtractTids, v \in Variants}

\* run(cmd, check, quiet) of the extractor
extract_run(check, rc) == IF check /\ rc # 0 THEN "raise" ELSE "return"

\* docker_rm: "docker rm -f name", exit status ignored
docker_rm(cs, name, rmOk) == IF rmOk THEN cs \ {name} ELSE cs

\* docker_create: docker_rm(name), then "docker create --name name" with
\* check=True; a name still in use makes the create fail
docker_create(cs, name, rmOk, createRc) ==
    LET cs1 == docker_rm(cs, name, rmOk)
        rc == IF name \in cs1 THEN 1 ELSE createRc
    IN  IF extract_run(TRUE, rc) = "raise"
        THEN [cs |-> cs1, raised |-> TRUE]
        ELSE [cs |-> cs1 \cup {name}, raised |-> FALSE]

\* a docker_cp_dir that leaves whatever the failed copy left behind
docker_cp_dir_keep(before, cpRc, left) ==
    IF cpRc # 0 THEN [dir |-> left, ret |-> FALSE]
    ELSE [dir |-> "full", ret |-> TRUE]

\* docker_cp_dir: the destination after the call and the value returned.
\* before is the destination's state on entry, left is what a failed
\* "docker cp" leaves at the destination.
docker_cp_dir(before, cpRc, left) ==
    LET removed == IF before # "absent" THEN "absent" ELSE before
        copied == IF cpRc = 0 THEN "full" ELSE IF left = "absent" THEN removed ELSE left
    IN  IF cpRc # 0
        THEN [dir |-> IF copied # "absent" /\ copied = "empty" THEN "absent" ELSE copied,
              ret |-> FALSE]
        ELSE [dir |-> copied, ret |-> TRUE]

\* install_codeql_build_sh: the directories that hold build.sh afterwards
install_codeql_build_sh(had, dst_dirs) == had \cup dst_dirs

ExtractInit ==
    /\ ePc = "idle"
    /\ eTask = <<>>
    /\ eNs = <<>>
    /\ eTid = <<>>
    /\ eRepo = "none"
    /\ eGot = [v \in Variants |-> "none"]
    /\ eCpLeft = [v \in Variants |-> "none"]
    /\ eCreated = {}
    /\ eReported = {}
    /\ eAbort = "none"
    /\ eCmds = {}
    /\ eRuns = 0
    /\ containers = {}
    /\ dirs = [p \in OutPaths |-> "absent"]
    /\ buildSh = {}

ExtractOther == UNCHANGED <<pvars, fvars, ivars>>

ExtractAbort(why) == ePc' = "aborted" /\ eAbort' = why

\* main: argparse has read the task string and the project
ExtractMain ==
    /\ ePc \in {"idle", "done", "aborted"}
    /\ eRuns < MaxRuns
    /\ \E t \in ExtractTaskStrings : eTask' = t
    /\ ePc' = "split"
    /\ eNs' = <<>>
    /\ eTid' = <<>>
    /\ eRepo' = "none"
    /\ eGot' = [v \in Variants |-> "none"]
    /\ eCpLeft' = [v \in Variants |-> "none"]
    /\ eCreated' = {}
    /\ eReported' = {}
    /\ eAbort' = "none"
    /\ eCmds' = {}
    /\ eRuns' = eRuns + 1
    /\ UNCHANGED <<containers, dirs, buildSh>>
    /\ ExtractOther

\* main: the colon test and args.task.split(":", 1)
ExtractSplit ==
    /\ ePc = "split"
    /\ IF ~HasColon(eTask)
       THEN ExtractAbort("bad_format") /\ UNCHANGED <<eNs, eTid>>
       ELSE /\ ePc' = "ensure_docker"
            /\ eNs' = split_first(eTask)[1]
            /\ eTid' = split_first(eTask)[2]
            /\ UNCHANGED eAbort
    /\ UNCHANGED <<eTask, eRepo, eGot, eCpLeft, eCreated, eReported, eCmds,
                   eRuns, containers, dirs, buildSh>>
    /\ ExtractOther

\* ensure_docker: which("docker") and "docker info"
EnsureDocker ==
    /\ ePc = "ensure_docker"
    /\ \E r \in {"ok", "no_docker", "daemon_down"} :
        IF r = "ok" THEN ePc' = "repo_for" /\ UNCHANGED eAbort
        ELSE ExtractAbort(r)
    /\ UNCHANGED <<eTask, eNs, eTid, eRepo, eGot, eCpLeft, eCreated, eReported,
                   eCmds, eRuns, containers, dirs, buildSh>>
    /\ ExtractOther

\* main: repo = repo_for(ns)
RepoFor ==
    /\ ePc = "repo_for"
    /\ IF repo_for(eNs) = "ERR"
       THEN ExtractAbort("unsupported_ns") /\ UNCHANGED eRepo
       ELSE ePc' = "pull" /\ eRepo' = repo_for(eNs) /\ UNCHANGED eAbort
    /\ UNCHANGED <<eTask, eNs, eTid, eGot, eCpLeft, eCreated, eReported, eCmds,
                   eRuns, containers, dirs, buildSh>>
    /\ ExtractOther

\* main: for img in [vul_img, fix_img]: docker_pull(img)   (check=True)
Pull ==
    /\ ePc = "pull"
    /\ \E rc1 \in ExitCodes, rc2 \in ExitCodes :
        IF extract_run(TRUE, rc1) = "raise" \/ extract_run(TRUE, rc2) = "raise"
        THEN ExtractAbort("pull")
        ELSE ePc' = "create_vul" /\ UNCHANGED eAbort
    /\ eCmds' = eCmds \cup {"pull"}
    /\ UNCHANGED <<eTask, eNs, eTid, eRepo, eGot, eCpLeft, eCreated, eReported,
                   eRuns, containers, dirs, buildSh>>
    /\ ExtractOther

Create(v, here, next) ==
    /\ ePc = here
    /\ \E rmOk \in BOOLEAN, createRc \in ExitCodes :
        LET name == container_name(eNs, eTid, v)
            r == docker_create(containers, name, rmOk, createRc)
        IN  /\ containers' = r.cs
            /\ IF r.raised
               THEN ExtractAbort("create") /\ UNCHANGED eCreated
               ELSE /\ ePc' = next
                    /\ eCreated' = eCreated \cup {name}
                    /\ UNCHANGED eAbort
    /\ eCmds' = eCmds \cup {"create"}
    /\ UNCHANGED <<eTask, eNs, eTid, eRepo, eGot, eCpLeft, eReported, eRuns,
                   dirs, buildSh>>
    /\ ExtractOther

\* main: docker_create(vul_name, vul_img)
CreateVul == Create("vul", "create_vul", "create_fix")

\* main: docker_create(fix_name, fix_img)
CreateFix == Create("fix", "create_fix", "mkbase")

\* main: base_dir.mkdir(parents=True, exist_ok=True)
MkBase ==
    /\ ePc = "mkbase"
    /\ \E ok \in BOOLEAN :
        IF ok THEN ePc' = "cp_vul" /\ UNCHANGED eAbort
        ELSE ExtractAbort("mkdir")
    /\ UNCHANGED <<eTask, eNs, eTid, eRepo, eGot, eCpLeft, eCreated, eReported,
                   eCmds, eRuns, containers, dirs, buildSh>>
    /\ ExtractOther

Cp(v, here, next) ==
    /\ ePc = here
    /\ \E rmtreeOk \in BOOLEAN, cpRc \in ExitCodes,
          left \in {"absent", "empty", "partial"} :
        LET p == out_path(eTid, v)
            r == docker_cp_dir(dirs[p], cpRc, left)
        IN  IF dirs[p] # "absent" /\ ~rmtreeOk
            THEN \* shutil.rmtree(host_dst) of an earlier tree raises (the tree
                 \* holds whatever modes and owners the image had); the
                 \* rmtree of a directory found empty does not
                 /\ ExtractAbort("rmtree")
                 /\ UNCHANGED <<eGot, eCpLeft, dirs, buildSh>>
            ELSE /\ ePc' = next
                 /\ dirs' = [dirs EXCEPT ![p] = r.dir]
                 /\ buildSh' = buildSh \ {p}
                 /\ eGot' = [eGot EXCEPT ![v] = IF r.ret THEN "yes" ELSE "no"]
                 /\ eCpLeft' = [eCpLeft EXCEPT ![v] = IF cpRc = 0 THEN "full" ELSE left]
                 /\ UNCHANGED eAbort
    /\ UNCHANGED <<eTask, eNs, eTid, eRepo, eCreated, eReported, eCmds, eRuns,
                   containers>>
    /\ ExtractOther

\* main: got_vul = docker_cp_dir(vul_name, src_path, vul_out)
CpVul == Cp("vul", "cp_vul", "cp_fix")

\* main: got_fix = docker_cp_dir(fix_name, src_path, fix_out)
CpFix == Cp("fix", "cp_fix", "install")

\* main: install_codeql_build_sh([d for d in [vul_out, fix_out] if d.exists()])
InstallBuildSh ==
    /\ ePc = "install"
    /\ buildSh' = install_codeql_build_sh(buildSh,
                     {out_path(eTid, v) : v \in {w \in Variants :
                                                   dirs[out_path(eTid, w)] # "absent"}})
    /\ ePc' = "cleanup"
    /\ UNCHANGED <<eTask, eNs, eTid, eRepo, eGot, eCpLeft, eCreated, eReported,
                   eAbort, eCmds, eRuns, containers, dirs>>
    /\ ExtractOther

\* main: for n in [vul_name, fix_name]: docker_rm(n)
Cleanup ==
    /\ ePc = "cleanup"
    /\ \E ok1 \in BOOLEAN, ok2 \in BOOLEAN :
        containers' = docker_rm(docker_rm(containers,
                                          container_name(eNs, eTid, "vul"), ok1),
                                container_name(eNs, eTid, "fix"), ok2)
    /\ ePc' = "report"
    /\ UNCHANGED <<eTask, eNs, eTid, eRepo, eGot, eCpLeft, eCreated, eReported,
                   eAbort, eCmds, eRuns, dirs, buildSh>>
    /\ ExtractOther

\* main: the closing report, one line per output directory that exists
Report ==
    /\ ePc = "report"
    /\ eReported' = {v \in Variants : dirs[out_path(eTid, v)] # "absent"}
    /\ ePc' = "done"
    /\ UNCHANGED <<eTask, eNs, eTid, eRepo, eGot, eCpLeft, eCreated, eAbort,
                   eCmds, eRuns, containers, dirs, buildSh>>
    /\ ExtractOther

ExtractNext ==
    \/ ExtractMain
    \/ ExtractSplit
    \/ EnsureDocker
    \/ RepoFor
    \/ Pull
    \/ CreateVul
    \/ CreateFix
    \/ MkBase
    \/ CpVul
    \/ CpFix
    \/ InstallBuildSh
    \/ Cleanup
    \/ Report

----------------------------------------------------------------------------
(* Tool installer *)

QlPacks == {"cpp/ql", "cpp/queries"}

\* the shell profile is a sequence of pieces of text: "E" is the text of
\* export_cmd, "P" the text of path_cmd, "C" the "# CodeQL setup" comment,
\* "NL" a line break, "X" any other text
ProfileTokens == {"E", "P", "X", "NL"}
Profiles == SeqsUpTo(ProfileTokens, MaxProfileLen)

export_cmd == <<"E">>
path_cmd == <<"P">>

\* needle in text: substring search
Contains(text, needle) ==
    \E i \in 1..(Len(text) - Len(needle) + 1) :
        SubSeq(text, i, i + Len(needle) - 1) = needle

Occurrences(text, needle) ==
    Cardinality({i \in 1..(Len(text) - Len(needle) + 1) :
                    SubSeq(text, i, i + Len(needle) - 1) = needle})

\* run(cmd, cwd) of the installer: always check=True
install_run(rc) == IF rc # 0 THEN "raise" ELSE "return"

\* a configure_env that appends without looking
configure_env_always(exists, text) ==
    [text |-> text \o <<"NL", "C", "NL">> \o export_cmd \o <<"NL">> \o path_cmd \o <<"NL">>,
     appended |-> TRUE]

\* configure_env: the profile text after the call and whether it appended
configure_env(exists, text) ==
    IF exists /\ Contains(text, export_cmd)
    THEN [text |-> text, appended |-> FALSE]
    ELSE [text |-> text \o <<"NL", "C", "NL">> \o export_cmd \o <<"NL">>
                        \o path_cmd \o <<"NL">>,
          appended |-> TRUE]

InstallInitWith(b, q, m, e, pr) ==
    /\ iPc = "idle"
    /\ iBinFound = "unknown"
    /\ iDownloaded = FALSE
    /\ iExtracted = FALSE
    /\ iAppended = FALSE
    /\ iAbort = "none"
    /\ iRuns = 0
    /\ envSet = FALSE
    /\ binExists = b
    /\ queriesExists = q
    /\ manifests = m
    /\ bashrcExists = e
    /\ profile = pr

\* the home directory before the installer has ever run
InstallFresh == InstallInitWith(FALSE, FALSE, {}, FALSE, <<>>)

\* any home directory the installer can be started in
InstallInit ==
    \E b \in BOOLEAN, q \in BOOLEAN, m \in SUBSET QlPacks, e \in BOOLEAN,
       pr \in Profiles :
        /\ (~q => m = {})
        /\ (~e => pr = <<>>)
        /\ InstallInitWith(b, q, m, e, pr)

InstallOther == UNCHANGED <<pvars, fvars, evars>>

InstallAbort(why) == iPc' = "aborted" /\ iAbort' = why

\* main of the installer starts; the environment is that of a new process
InstallMain ==
    /\ iPc \in {"idle", "done", "aborted"}
    /\ iRuns < MaxRuns
    /\ iPc' = "download"
    /\ iBinFound' = "unknown"
    /\ iDownloaded' = FALSE
    /\ iExtracted' = FALSE
    /\ iAppended' = FALSE
    /\ iAbort' = "none"
    /\ iRuns' = iRuns + 1
    /\ envSet' = FALSE
    /\ UNCHANGED <<binExists, queriesExists, manifests, bashrcExists, profile>>
    /\ InstallOther

\* download_and_extract_codeql
DownloadAndExtract ==
    /\ iPc = "download"
    /\ IF binExists
       THEN /\ iBinFound' = "yes"
            /\ iPc' = "clone"
            /\ UNCHANGED <<iDownloaded, iExtracted, iAbort, binExists>>
       ELSE /\ iBinFound' = "no"
            /\ \E wgetRc \in ExitCodes, unzipRc \in ExitCodes, binAfter \in BOOLEAN :
                IF install_run(wgetRc) = "raise"
                THEN /\ InstallAbort("wget")
                     /\ iDownloaded' = TRUE
                     /\ UNCHANGED <<iExtracted, binExists>>
                ELSE IF install_run(unzipRc) = "raise"
                THEN /\ InstallAbort("unzip")
                     /\ iDownloaded' = TRUE
                     /\ iExtracted' = TRUE
                     /\ binExists' = binAfter
                ELSE IF ~binAfter
                THEN /\ InstallAbort("bin_missing")
                     /\ iDownloaded' = TRUE
                     /\ iExtracted' = TRUE
                     /\ UNCHANGED binExists
                ELSE /\ iPc' = "clone"
                     /\ iDownloaded' = TRUE
                     /\ iExtracted' = TRUE
                     /\ binExists' = TRUE
                     /\ UNCHANGED iAbort
    /\ UNCHANGED <<iAppended, iRuns, envSet, queriesExists, manifests,
                   bashrcExists, profile>>
    /\ InstallOther

\* clone_queries_repo
CloneQueries ==
    /\ iPc = "clone"
    /\ IF queriesExists
       THEN iPc' = "deps" /\ UNCHANGED <<iAbort, queriesExists, manifests>>
       ELSE \E rc \in ExitCodes, m \in SUBSET QlPacks :
                IF install_run(rc) = "raise"
                THEN InstallAbort("git_clone") /\ UNCHANGED <<queriesExists, manifests>>
                ELSE /\ iPc' = "deps"
                     /\ queriesExists' = TRUE
                     /\ manifests' = m
                     /\ UNCHANGED iAbort
    /\ UNCHANGED <<iBinFound, iDownloaded, iExtracted, iAppended, iRuns, envSet,
                   binExists, bashrcExists, profile>>
    /\ InstallOther

\* install_query_dependencies: "codeql pack install" in every pack that has
\* a qlpack.yml, each through run (check=True)
InstallQueryDependencies ==
    /\ iPc = "deps"
    /\ \E rc \in [QlPacks -> ExitCodes] :
        IF \E q \in manifests : install_run(rc[q]) = "raise"
        THEN InstallAbort("pack_install")
        ELSE iPc' = "configure_env" /\ UNCHANGED iAbort
    /\ UNCHANGED <<iBinFound, iDownloaded, iExtracted, iAppended, iRuns, envSet,
                   binExists, queriesExists, manifests, bashrcExists, profile>>
    /\ InstallOther

\* configure_env, then the closing messages of main
ConfigureEnv ==
    /\ iPc = "configure_env"
    /\ LET r == configure_env(bashrcExists, profile)
       IN  /\ profile' = r.text
           /\ iAppended' = r.appended
           /\ bashrcExists' = (bashrcExists \/ r.appended)
    /\ envSet' = TRUE
    /\ iPc' = "done"
    /\ UNCHANGED <<iBinFound, iDownloaded, iExtracted, iAbort, iRuns, binExists,
                   queriesExists, manifests>>
    /\ InstallOther

InstallNext ==
    \/ InstallMain
    \/ DownloadAndExtract
    \/ CloneQueries
    \/ InstallQueryDependencies
    \/ ConfigureEnv

----------------------------------------------------------------------------
(* Specifications: the three scripts do not interact, each is run alone *)

ParseNext == ResolveTask

InitParse == ParseInit /\ FetchInit /\ ExtractInit /\ InstallFresh
InitFetch == ParseInit /\ FetchInit /\ ExtractInit /\ InstallFresh
InitExtract == ParseInit /\ FetchInit /\ ExtractInit /\ InstallFresh
InitInstall == ParseInit /\ FetchInit /\ ExtractInit /\ InstallInit

SpecParse == InitParse /\ [][ParseNext]_vars
SpecFetch == InitFetch /\ [][FetchNext]_vars
SpecExtract == InitExtract /\ [][ExtractNext]_vars
SpecInstall == InitInstall /\ [][InstallNext]_vars

----------------------------------------------------------------------------
(* Properties *)

\* C1: in the dataset fetcher the configured sparse-checkout prefix set
\* never shrinks: whatever the external git commands return, every prefix
\* configured before a step is still configured after it.
C1_NeverShrinks == [][sparse \subseteq sparse']_vars

\* C2: at the end of an extractor run every output directory is either
\* fully populated, its copy having succeeded, or absent, its copy having
\* failed; no directory exists although its copy failed.
C2_NoTornOutput ==
    \A v \in Variants :
        /\ eGot[v] = "yes" => dirs[out_path(eTid, v)] = "full"
        /\ eGot[v] = "no" => dirs[out_path(eTid, v)] = "absent"

\* C3: when the copy of a variant fails and leaves an empty destination
\* directory, docker_cp_dir has removed that directory when it returns
\* False, and no build script is written into it afterwards.
C3_EmptyDirRemoved ==
    \A v \in Variants :
        (eGot[v] = "no" /\ eCpLeft[v] = "empty")
            => /\ dirs[out_path(eTid, v)] = "absent"
               /\ out_path(eTid, v) \notin buildSh

C3_Witness ==
    /\ ePc = "done"
    /\ \E v \in Variants : eGot[v] = "no" /\ eCpLeft[v] = "empty"

\* C4: when exactly one of the two copies succeeds the run does not abort,
\* the build script is written into the directory of the variant that
\* succeeded, and the closing report names that variant and no other.
C4_OneVariantOnly ==
    \A v \in Variants : \A w \in Variants \ {v} :
        (eGot[v] = "yes" /\ eGot[w] = "no")
            => /\ ePc # "aborted"
               /\ ePc = "done" => /\ out_path(eTid, v) \in buildSh
                                  /\ eReported = {v}

\* C5: every throwaway container created in a run has been removed when
\* the run ends, whatever happened after its creation.
C5_ContainersRemoved ==
    ePc \in {"done", "aborted"} => eCreated \cap containers = {}

\* C6: in the dataset fetcher no non-zero exit of sparse-checkout list/set,
\* lfs fetch, checkout or lfs checkout ends the run: a run ends early only
\* on a missing git, a directory that cannot be created, a failed clone or
\* a bad task string, and the checkout and the lfs checkout of every
\* requested task have been attempted when the run is done.
C6_StepsDoNotAbort ==
    /\ fPc = "aborted" => fAbort \in {"git_missing", "mkdir", "clone", "bad_task"}
    /\ fPc = "lfs_checkout" => fCoTried = 1..Len(fParsed)
    /\ fPc = "done" => /\ fCoTried = 1..Len(fParsed)
                       /\ fLfsTried = 1..Len(fParsed)
                       /\ Len(fParsed) = Len(fArgs)

C6_Witness ==
    /\ fPc = "done"
    /\ Len(fParsed) = 2
    /\ <<"checkout", 1>> \in fFailed
    /\ <<"sparse_set", 0>> \in fFailed
    /\ fCoTried = {1, 2}
    /\ fLfsTried = {1, 2}

\* C7: a run given a task string with no colon or an unsupported namespace
\* ends before any state-changing external command (clone, fetch, pull,
\* sparse-checkout set, image pull, container create) has been executed.
C7_AbortBeforeCommands ==
    /\ fAbort = "bad_task" => fCmds = {}
    /\ eAbort \in {"bad_format", "unsupported_ns"} => eCmds = {}

\* C8: an installer run that finds the codeql binary present downloads
\* nothing, extracts nothing and ends without error.
C8_RerunCompletes ==
    (iBinFound = "yes" /\ iPc \in {"done", "aborted"})
        => /\ ~iDownloaded
           /\ ~iExtracted
           /\ iPc = "done"

ValidTask(t) ==
    \E i \in 1..Len(t) :
        /\ t[i] = ":"
        /\ \A j \in 1..(i - 1) : t[j] # ":"
        /\ SubSeq(t, 1, i - 1) \in Namespaces

\* C9: task resolution accepts exactly the strings that have a colon and
\* whose text before the first colon is "arvo" or "oss-fuzz"; it returns
\* the text before the first colon and everything after it; the fetcher
\* and the extractor accept and reject the same strings.
C9_TaskResolution ==
    /\ pFetch.ok = ValidTask(pTask)
    /\ pExtract.ok = pFetch.ok
    /\ pFetch.ok => /\ pFetch.ns \o <<":">> \o pFetch.tid = pTask
                    /\ ~HasColon(pFetch.ns)
                    /\ pExtract.ns = pFetch.ns
                    /\ pExtract.tid = pFetch.tid
    /\ ~pFetch.ok => /\ pFetch.err \in {"bad_format", "unsupported_ns"}
                     /\ pExtract.err \in {"bad_format", "unsupported_ns"}

C9_Witness ==
    /\ pFetch.ok
    /\ pFetch.ns = oss_fuzz
    /\ HasColon(pFetch.tid)

Neither(text) == ~Contains(text, export_cmd) /\ ~Contains(text, path_cmd)

Once(text) == Occurrences(text, export_cmd) = 1 /\ Occurrences(text, path_cmd) = 1

\* C10: the installer appends the two export lines only when the
\* CODEQL_CLI line is not in the profile: a completed run started on a
\* profile with neither line leaves each line in it once, later steps and
\* runs keep it so, only configure_env writes the profile, and a run that
\* finds the CODEQL_CLI line leaves the profile as it is and sets
\* CODEQL_CLI in the environment.
C10_ProfileOnce ==
    [][ /\ (iPc = "configure_env" /\ Neither(profile)) => Once(profile')
        /\ iPc # "configure_env" => profile' = profile
        /\ Once(profile) => Once(profile')
        /\ (iPc = "configure_env" /\ bashrcExists /\ Contains(profile, export_cmd))
              => (profile' = profile /\ envSet') ]_vars

C10_Witness ==
    /\ iPc = "done"
    /\ iRuns = 2
    /\ ~iAppended
    /\ envSet
    /\ Contains(profile, <<"C">>)
    /\ Once(profile)

====
